---- MODULE Spec2Model ----
(***************************************************************************)
(* Model of the camera server of rpi_uv (src/server.py): the global flags  *)
(* streaming_active / capture_in_progress / mjpeg_process, the request     *)
(* handlers that read and write them from concurrent Flask threads         *)
(* (app.run(threaded=True)), the external camera processes they launch     *)
(* and kill, and the MJPEG frame loop of generate_mjpeg_stream.            *)
(*                                                                         *)
(* Spec      : two concurrent capture clients, with /api/stream/start and  *)
(*             /api/config requests.                                       *)
(* SpecCam   : one capture client, a /stream client and the thread serving *)
(*             /api/stream/stop, /api/stream/frame and /api/shutdown.      *)
(* SpecMjpeg : the frame loop of generate_mjpeg_stream fed a byte stream.  *)
(* SpecStreams : one capture client and two /stream clients, one of them    *)
(*             producing frames at the start, with /api/stream/start       *)
(*             requests and a fixed configuration.                         *)
(* SpecHandoff : two capture clients, the first one running when the       *)
(*             second makes its request.                                   *)
(* SpecScale : scale_rois_to_capture_resolution applied to a list of ROIs. *)
(* SpecConfig : one capture client, with /api/config requests that change  *)
(*             the photo count, the camera command and the inter-shot      *)
(*             delay.                                                      *)
(* SpecShot  : a capture job from the return of its first analysis_capture *)
(*             call, for every outcome of the rpicam-still run.            *)
(* SpecCount : HSVAnalyzer._count_pixels_in_roi (src/hsv_analyzer.py)      *)
(*             applied to a mask and an ROI.                               *)
(* SpecStall : SpecStreams with stream processes that may stop writing.    *)
(***************************************************************************)
EXTENDS Integers, Sequences, FiniteSets, TLC

VARIABLES
    streaming_active,     \* server.py:70  global flag
    capture_in_progress,  \* server.py:71  global flag
    mjpeg_process,        \* server.py:72  global handle: None or the Popen object of a /stream session
    num_photos,           \* app_config['num_photos'] (server.py:182, 534, 862)
    job,                  \* per capture request thread: position and locals of capture_sequence / generate()
    stream,               \* per /stream request thread: position of video_stream / generate_mjpeg_stream
    ctl,                  \* the thread serving /api/stream/stop, /api/stream/frame and /api/shutdown
    vid_alive,            \* rpicam-vid processes alive, named by the session that launched them
    shot_alive,           \* capture jobs whose analysis_capture rpicam-still process is alive
    still_alive,          \* get_frame's stream_capture rpicam-still process is alive
    server_up,            \* FALSE once shutdown_server's delayed os._exit(0) has run
    mj_input,             \* frame loop: the whole byte stream written by the stream process
    mj_rest,              \* frame loop: bytes not yet read from mjpeg_process.stdout
    mj_pc,                \* frame loop: "loop", "inner", "done" (break at end of stream), "stopped" (loop test failed)
    mj_frame,             \* frame loop: frame_data
    mj_out,               \* frame loop: the JPEG payloads yielded so far
    resolution,           \* server.py:32-35  STREAM_WIDTH, STREAM_HEIGHT, CAPTURE_WIDTH, CAPTURE_HEIGHT
    streaming_rois,       \* scale_rois_to_capture_resolution: the argument, a list of ROIs
    scaled_rois,          \* scale_rois_to_capture_resolution: whether it has returned, and the list returned
    camera_command,       \* app_config['camera_command'] (server.py:91, 228, 538, 862)
    capture_delay,        \* app_config['capture_delay'] (server.py:89, 536, 862)
    shot_outcome,         \* analysis_capture: what the rpicam-still run of the call does
    vid_silent,           \* rpicam-vid processes that write nothing more to their pipe while alive
    count_mask,           \* _count_pixels_in_roi: the non-zero pixels of the mask argument
    count_roi,            \* _count_pixels_in_roi: the roi argument
    count_result          \* _count_pixels_in_roi: whether it has returned, raised, and the count returned

gvars  == <<streaming_active, capture_in_progress, mjpeg_process>>
pvars  == <<vid_alive, shot_alive, still_alive>>
mjvars == <<mj_input, mj_rest, mj_pc, mj_frame, mj_out>>
roivars == <<resolution, streaming_rois, scaled_rois>>
cfgvars == <<camera_command, capture_delay>>
extvars == <<shot_outcome, vid_silent>>
cntvars == <<count_mask, count_roi, count_result>>
vars   == <<streaming_active, capture_in_progress, mjpeg_process, num_photos, job,
            stream, ctl, vid_alive, shot_alive, still_alive, server_up,
            mj_input, mj_rest, mj_pc, mj_frame, mj_out,
            resolution, streaming_rois, scaled_rois,
            camera_command, capture_delay, shot_outcome, vid_silent,
            count_mask, count_roi, count_result>>

(***************************************************************************)
(* Bounds and program constants                                            *)
(***************************************************************************)
\* largest num_photos value the configuration takes in the model
MaxPhotos == 2
\* longest <k bytes> / <m bytes> payload fed to the frame loop
MaxPayload == 2
\* largest number of bytes preceding the first frame fed to the frame loop
MaxJunk == 3
\* range(1, 4) of the legacy endpoint
LegacyPhotos == 3

None == "None"
Jobs == {"j1", "j2"}
Streams == {"s1", "s2"}
Entries == {"seq", "sse"}
NumPhotosValues == 0..MaxPhotos

\* largest magnitude of an ROI coordinate drawn for the scaler
MaxCoord == 2
\* resolution configuration of the server
STREAM_WIDTH == 406
STREAM_HEIGHT == 304
CAPTURE_WIDTH == 4056
CAPTURE_HEIGHT == 3040
ServerResolution ==
    [sw |-> STREAM_WIDTH, sh |-> STREAM_HEIGHT, cw |-> CAPTURE_WIDTH, ch |-> CAPTURE_HEIGHT]

\* side, in pixels, of the mask images given to the pixel count
MaskSize == 2

\* JPEG marker bytes
FF == 255
D8 == 216
D9 == 217
\* byte values fed to the frame loop: the three marker bytes and one other byte
Bytes == {0, D8, D9, FF}

(***************************************************************************)
(* Progress events of capture_sequence_stream (the JSON objects of the     *)
(* "data:" lines) and responses of capture_sequence                        *)
(***************************************************************************)
Ev(status, msg, photo, total, files) ==
    [status |-> status, msg |-> msg, photo |-> photo, total |-> total, files |-> files]

EvStarting        == Ev("starting", "", 0, 0, <<>>)
EvPreparing       == Ev("preparing", "", 0, 0, <<>>)
EvCapturing(i, n) == Ev("capturing", "", i, n, <<>>)
\* variant: the captured event names the file of the last shot
EvCaptured_Last(i, n) == Ev("captured", "", i, n, <<n>>)
EvCaptured(i, n)  == Ev("captured", "", i, n, <<i>>)
EvComplete(fs)    == Ev("complete", "", 0, 0, fs)
EvBusy            == Ev("error", "Capture already in progress", 0, 0, <<>>)
EvShotFailed(i, n) == Ev("error", "Failed to capture photo", i, n, <<>>)
EvException       == Ev("error", "Capture failed", 0, 0, <<>>)

\* the decimal digits of i, and "{i:03d}": at least three of them
RECURSIVE Digits(_)
Digits(i) == IF i < 10 THEN <<i>> ELSE Append(Digits(i \div 10), i % 10)
RECURSIVE Pad3(_)
Pad3(d) == IF Len(d) < 3 THEN Pad3(<<0>> \o d) ELSE d

\* photo_name = f"{timestamp}_{i:03d}.jpg"; a file is named in the events
\* by its shot index i, which stands for this name
PhotoName(timestamp, i) == [ts |-> timestamp, idx |-> Pad3(Digits(i)), ext |-> "jpg"]

\* values of app_config['camera_command']
DefaultCommand == "rpicam-still"
Commands == {"rpicam-still", "libcamera-still"}

\* values of app_config['capture_delay']: 0, a positive number of seconds,
\* null (update_config stores any JSON value)
DefaultDelay == "positive"
DelayValues == {"zero", "positive", "null"}

\* cmd, delay: the locals camera_command and capture_delay of generate();
\* used: the camera command of each analysis_capture call of the job;
\* delays: the shots after which the inter-shot time.sleep was called
JobInit ==
    [pc |-> "idle", entry |-> "sse", n |-> 0, i |-> 0, events |-> <<>>,
     photos |-> <<>>, shots |-> 0, exit |-> "none", disc |-> FALSE,
     sa_before |-> FALSE, cmd |-> None, delay |-> None, used |-> <<>>,
     delays |-> <<>>]

StreamInit == [pc |-> "idle"]

\* last: the request the control thread completed last ("none", "stop", "frame")
CtlInit == [pc |-> "idle", last |-> "none"]

(***************************************************************************)
(* Initial state: the module-level assignments of server.py                *)
(***************************************************************************)
MjIdle ==
    /\ mj_input = <<>>
    /\ mj_rest = <<>>
    /\ mj_pc = "off"
    /\ mj_frame = <<>>
    /\ mj_out = <<>>

\* scale_rois_to_capture_resolution has not returned
NoResult == [returned |-> FALSE, rois |-> <<>>]

\* no ROI list is being scaled
RoiIdle ==
    /\ resolution = ServerResolution
    /\ streaming_rois = <<>>
    /\ scaled_rois = NoResult

\* no rpicam-still run under study
NoOutcome == [launch |-> "none", code |-> 0, file |-> FALSE]

\* _count_pixels_in_roi has not returned
NoCount == [returned |-> FALSE, raised |-> FALSE, count |-> 0]

\* the configuration of load_config's defaults, every stream process
\* writing, no pixel count under way
ExtIdle ==
    /\ camera_command = DefaultCommand
    /\ capture_delay = DefaultDelay
    /\ shot_outcome = NoOutcome
    /\ vid_silent = {}
    /\ count_mask = {}
    /\ count_roi = [x |-> 0, y |-> 0, width |-> 0, height |-> 0]
    /\ count_result = NoCount

Init ==
    /\ streaming_active = FALSE
    /\ capture_in_progress = FALSE
    /\ mjpeg_process = None
    /\ num_photos \in NumPhotosValues
    /\ job = [j \in Jobs |-> JobInit]
    /\ stream = [s \in Streams |-> StreamInit]
    /\ ctl = CtlInit
    /\ vid_alive = {}
    /\ shot_alive = {}
    /\ still_alive = FALSE
    /\ server_up = TRUE
    /\ MjIdle
    /\ ExtIdle
    /\ RoiIdle

(***************************************************************************)
(* Capture jobs: capture_sequence (entry "seq") and                        *)
(* capture_sequence_stream.generate (entry "sse")                          *)
(***************************************************************************)
\* a yield of generate(): the event is produced; the client may have gone,
\* in which case the generator is closed (GeneratorExit at the yield) and
\* control passes to the finally block
Yield(j, ev, next) ==
    \/ job' = [job EXCEPT ![j].events = Append(@, ev), ![j].pc = next]
    \/ job' = [job EXCEPT ![j].events = Append(@, ev), ![j].pc = "fin1",
                          ![j].disc = TRUE,
                          ![j].exit = IF @ = "none" THEN "disconnect" ELSE @]

\* variant: the test is inside the try block, so the finally block follows
\* a rejection
Check_InsideTry(j, e) ==
    /\ server_up
    /\ job[j].pc = "idle"
    /\ IF capture_in_progress
         THEN job' = [job EXCEPT ![j].entry = e, ![j].pc = "fin1",
                                 ![j].exit = "rejected",
                                 ![j].events = Append(@, EvBusy)]
         ELSE job' = [job EXCEPT ![j].entry = e, ![j].pc = "accept"]
    /\ UNCHANGED <<gvars, num_photos, stream, ctl, pvars, server_up, mjvars, roivars, cfgvars, extvars, cntvars>>

\* "if capture_in_progress:" of both entry points
Check(j, e) ==
    /\ server_up
    /\ job[j].pc = "idle"
    /\ IF capture_in_progress
         THEN job' = [job EXCEPT ![j].entry = e, ![j].pc = "done",
                                 ![j].exit = "rejected",
                                 ![j].events = Append(@, EvBusy)]
         ELSE job' = [job EXCEPT ![j].entry = e, ![j].pc = "accept"]
    /\ UNCHANGED <<gvars, num_photos, stream, ctl, pvars, server_up, mjvars, roivars, cfgvars, extvars, cntvars>>

\* "streaming_active = False; capture_in_progress = True"
Accept(j) ==
    /\ server_up
    /\ job[j].pc = "accept"
    /\ streaming_active' = FALSE
    /\ capture_in_progress' = TRUE
    /\ job' = [job EXCEPT ![j].sa_before = streaming_active,
                          ![j].n = IF job[j].entry = "seq" THEN LegacyPhotos ELSE @,
                          ![j].pc = IF job[j].entry = "seq" THEN "reclaim" ELSE "starting"]
    /\ UNCHANGED <<mjpeg_process, num_photos, stream, ctl, pvars, server_up, mjvars, roivars, cfgvars, extvars, cntvars>>

\* variant: the number of photos is fixed and the configuration is not read
YStarting_Fixed(j) ==
    /\ server_up
    /\ job[j].pc = "starting"
    /\ LET withN == [job EXCEPT ![j].n = LegacyPhotos, ![j].cmd = camera_command,
                                ![j].delay = capture_delay]
       IN  \/ job' = [withN EXCEPT ![j].events = Append(@, EvStarting),
                                   ![j].pc = "preparing"]
           \/ job' = [withN EXCEPT ![j].events = Append(@, EvStarting),
                                   ![j].pc = "fin1", ![j].disc = TRUE,
                                   ![j].exit = "disconnect"]
    /\ UNCHANGED <<gvars, num_photos, stream, ctl, pvars, server_up, mjvars, roivars, cfgvars, extvars, cntvars>>

\* reads the configuration, yields "starting"
YStarting(j) ==
    /\ server_up
    /\ job[j].pc = "starting"
    /\ LET withN == [job EXCEPT ![j].n = num_photos, ![j].cmd = camera_command,
                                ![j].delay = capture_delay]
       IN  \/ job' = [withN EXCEPT ![j].events = Append(@, EvStarting),
                                   ![j].pc = "preparing"]
           \/ job' = [withN EXCEPT ![j].events = Append(@, EvStarting),
                                   ![j].pc = "fin1", ![j].disc = TRUE,
                                   ![j].exit = "disconnect"]
    /\ UNCHANGED <<gvars, num_photos, stream, ctl, pvars, server_up, mjvars, roivars, cfgvars, extvars, cntvars>>

YPreparing(j) ==
    /\ server_up
    /\ job[j].pc = "preparing"
    /\ Yield(j, EvPreparing, "reclaim")
    /\ UNCHANGED <<gvars, num_photos, stream, ctl, pvars, server_up, mjvars, roivars, cfgvars, extvars, cntvars>>

\* how the try block of the preparation step ends: all four statements
\* run ("ok"), or subprocess.run raises at the first pkill (pkill cannot be
\* executed), or a later statement raises (startup_delay is not a valid
\* duration, the second pkill cannot be executed); "except: pass" then
\* skips the rest of the block, the delays included
ReclaimOutcomes == {"ok", "pkill_vid_raised", "later_raised"}

\* sleep(1.0); try: pkill -9 rpicam-vid; sleep(startup_delay);
\* pkill -9 rpicam-still; sleep(0.5)  except: pass
Reclaim(j, outcome) ==
    /\ server_up
    /\ job[j].pc = "reclaim"
    /\ vid_alive' = IF outcome = "pkill_vid_raised" THEN vid_alive ELSE {}
    /\ shot_alive' = IF outcome = "ok" THEN {} ELSE shot_alive
    /\ still_alive' = IF outcome = "ok" THEN FALSE ELSE still_alive
    /\ job' = [job EXCEPT ![j].pc = "mkdir"]
    /\ UNCHANGED <<gvars, num_photos, stream, ctl, server_up, mjvars, roivars, cfgvars, extvars, cntvars>>

\* folder_path.mkdir(...): creates the folder, or raises (save location not
\* writable), which the "except Exception" clause turns into an error
FirstShotPc(e, n) ==
    IF n >= 1 THEN (IF e = "sse" THEN "capturing" ELSE "launch") ELSE "complete"

Mkdir(j) ==
    /\ server_up
    /\ job[j].pc = "mkdir"
    /\ \/ job' = [job EXCEPT ![j].i = 1,
                             ![j].pc = FirstShotPc(job[j].entry, job[j].n)]
       \/ job' = [job EXCEPT ![j].exit = "exception",
                             ![j].pc = IF job[j].entry = "sse" THEN "exc" ELSE "fin1",
                             ![j].events = IF job[j].entry = "sse" THEN @
                                           ELSE Append(@, EvException)]
    /\ UNCHANGED <<gvars, num_photos, stream, ctl, pvars, server_up, mjvars, roivars, cfgvars, extvars, cntvars>>

YCapturing(j) ==
    /\ server_up
    /\ job[j].pc = "capturing"
    /\ Yield(j, EvCapturing(job[j].i, job[j].n), "launch")
    /\ UNCHANGED <<gvars, num_photos, stream, ctl, pvars, server_up, mjvars, roivars, cfgvars, extvars, cntvars>>

\* the camera command of an analysis_capture call: the camera_command
\* argument generate() passes, or, with no argument (capture_sequence),
\* "app_config.get('camera_command', 'rpicam-still')" at the call
ShotCommand(e, cmd) == IF e = "sse" THEN cmd ELSE camera_command

\* analysis_capture: subprocess.run starts the rpicam-still process
Launch(j) ==
    /\ server_up
    /\ job[j].pc = "launch"
    /\ shot_alive' = shot_alive \cup {j}
    /\ job' = [job EXCEPT ![j].shots = @ + 1, ![j].pc = "shot",
                          ![j].used = Append(@, ShotCommand(job[j].entry, job[j].cmd))]
    /\ UNCHANGED <<gvars, num_photos, stream, ctl, vid_alive, still_alive, server_up, mjvars, roivars, cfgvars, extvars, cntvars>>

\* variant: the loop stops one shot early (range(1, num_photos))
AfterShotPc_OneShort(e, i, n) ==
    IF i < n - 1 THEN (IF e = "sse" THEN "capturing" ELSE "launch") ELSE "complete"

\* where the loop goes after shot i succeeded: the next shot after the
\* inter-shot delay, or past the loop
AfterShotPc(e, i, n) ==
    IF i < n THEN (IF e = "sse" THEN "capturing" ELSE "launch") ELSE "complete"

\* variant: the delay follows every shot, the last one included
DelayAfter_Always(i, n) == TRUE

\* "if i < num_photos:" / "if i < 3:" before the inter-shot time.sleep
DelayAfter(i, n) == i < n

\* variant: a failed shot is skipped and the loop carries on with the next one
ShotEnd_CarryOn(j, ok) ==
    /\ server_up
    /\ job[j].pc = "shot"
    /\ ok => j \in shot_alive
    /\ shot_alive' = shot_alive \ {j}
    /\ IF ok \/ job[j].i < job[j].n
         THEN job' = [job EXCEPT
                ![j].photos = IF ok THEN Append(@, job[j].i) ELSE @,
                ![j].i = IF job[j].entry = "seq" /\ job[j].i < job[j].n THEN @ + 1 ELSE @,
                ![j].pc = IF job[j].entry = "sse" THEN "captured"
                          ELSE AfterShotPc("seq", job[j].i, job[j].n)]
         ELSE job' = [job EXCEPT
                ![j].exit = "shotfail",
                ![j].pc = IF job[j].entry = "sse" THEN "error" ELSE "fail_reset"]
    /\ UNCHANGED <<gvars, num_photos, stream, ctl, vid_alive, still_alive, server_up, mjvars, roivars, cfgvars, extvars, cntvars>>

\* analysis_capture returns: True when the process exited 0 and the file
\* exists; False otherwise (non-zero exit, no file, timeout, killed, exception)
ShotEnd(j, ok) ==
    /\ server_up
    /\ job[j].pc = "shot"
    /\ ok => j \in shot_alive
    /\ shot_alive' = shot_alive \ {j}
    /\ IF ok
         THEN job' = [job EXCEPT
                ![j].photos = Append(@, job[j].i),
                ![j].delays = IF job[j].entry = "seq" /\ DelayAfter(job[j].i, job[j].n)
                              THEN Append(@, job[j].i) ELSE @,
                ![j].i = IF job[j].entry = "seq" /\ job[j].i < job[j].n THEN @ + 1 ELSE @,
                ![j].pc = IF job[j].entry = "sse" THEN "captured"
                          ELSE AfterShotPc("seq", job[j].i, job[j].n)]
         ELSE job' = [job EXCEPT
                ![j].exit = "shotfail",
                ![j].pc = IF job[j].entry = "sse" THEN "error" ELSE "fail_reset"]
    /\ UNCHANGED <<gvars, num_photos, stream, ctl, vid_alive, still_alive, server_up, mjvars, roivars, cfgvars, extvars, cntvars>>

\* yields "captured", then "if i < num_photos: time.sleep(capture_delay)";
\* time.sleep(None) raises TypeError, which the "except Exception" clause
\* of generate() turns into the error event
\* what the rpicam-still run of an analysis_capture call does: subprocess.run
\* returns ("ran") with an exit code, the output file written or not, or
\* raises TimeoutExpired after 10 s ("timeout"), or raises because the
\* command cannot be executed ("raised")
ShotOutcomes ==
    [launch : {"ran", "timeout", "raised"}, code : {0, 1}, file : BOOLEAN]

\* variant: the exit code alone decides
AnalysisCapture_ExitOnly(o) ==
    IF o.launch # "ran" THEN "False"
    ELSE IF o.code = 0 THEN "True" ELSE "False"

\* analysis_capture: "True" / "False" as returned, "raised" for an exception
\* that reaches the caller; "except Exception: return False" covers
\* subprocess.run raising
AnalysisCapture(o) ==
    IF o.launch # "ran" THEN "False"
    ELSE IF o.code = 0 /\ o.file THEN "True" ELSE "False"

\* the analysis_capture call of job j returns, its rpicam-still run having
\* done what shot_outcome says; an exception out of it would reach the
\* "except Exception" clause of the caller
ShotReturn(j) ==
    /\ shot_outcome # NoOutcome
    /\ job[j].shots = 1
    /\ LET r == AnalysisCapture(shot_outcome)
       IN  IF r = "raised"
             THEN /\ server_up
                  /\ job[j].pc = "shot"
                  /\ shot_alive' = shot_alive \ {j}
                  /\ job' = [job EXCEPT
                               ![j].exit = "exception",
                               ![j].pc = IF job[j].entry = "sse" THEN "exc" ELSE "fin1",
                               ![j].events = IF job[j].entry = "sse" THEN @
                                             ELSE Append(@, EvException)]
                  /\ UNCHANGED <<gvars, num_photos, stream, ctl, vid_alive, still_alive,
                                 server_up, mjvars, roivars, cfgvars, extvars, cntvars>>
             ELSE ShotEnd(j, r = "True")

YCaptured(j) ==
    /\ server_up
    /\ job[j].pc = "captured"
    /\ \/ IF DelayAfter(job[j].i, job[j].n) /\ job[j].delay = "null"
            THEN job' = [job EXCEPT
                           ![j].events = Append(@, EvCaptured(job[j].i, job[j].n)),
                           ![j].delays = Append(@, job[j].i),
                           ![j].exit = "bad_delay",
                           ![j].pc = "exc"]
            ELSE job' = [job EXCEPT
                           ![j].events = Append(@, EvCaptured(job[j].i, job[j].n)),
                           ![j].delays = IF DelayAfter(job[j].i, job[j].n)
                                         THEN Append(@, job[j].i) ELSE @,
                           ![j].i = IF job[j].i < job[j].n THEN @ + 1 ELSE @,
                           ![j].pc = AfterShotPc("sse", job[j].i, job[j].n)]
       \/ job' = [job EXCEPT ![j].events = Append(@, EvCaptured(job[j].i, job[j].n)),
                             ![j].pc = "fin1", ![j].disc = TRUE,
                             ![j].exit = "disconnect"]
    /\ UNCHANGED <<gvars, num_photos, stream, ctl, pvars, server_up, mjvars, roivars, cfgvars, extvars, cntvars>>

\* variant: no "return" after the error event of a failed shot; the loop
\* carries on
YError_NoReturn(j) ==
    /\ server_up
    /\ job[j].pc = "error"
    /\ Yield(j, EvShotFailed(job[j].i, job[j].n), AfterShotPc("sse", job[j].i, job[j].n))
    /\ UNCHANGED <<gvars, num_photos, stream, ctl, pvars, server_up, mjvars, roivars, cfgvars, extvars, cntvars>>

YError(j) ==
    /\ server_up
    /\ job[j].pc = "error"
    /\ Yield(j, EvShotFailed(job[j].i, job[j].n), "fail_reset")
    /\ UNCHANGED <<gvars, num_photos, stream, ctl, pvars, server_up, mjvars, roivars, cfgvars, extvars, cntvars>>

\* failure path: "capture_in_progress = False; streaming_active = True; return"
FailReset(j) ==
    /\ server_up
    /\ job[j].pc = "fail_reset"
    /\ capture_in_progress' = FALSE
    /\ streaming_active' = TRUE
    /\ job' = [job EXCEPT ![j].pc = "fin1",
                          ![j].events = IF job[j].entry = "seq"
                                        THEN Append(@, EvShotFailed(job[j].i, job[j].n))
                                        ELSE @]
    /\ UNCHANGED <<mjpeg_process, num_photos, stream, ctl, pvars, server_up, mjvars, roivars, cfgvars, extvars, cntvars>>

\* past the loop: the "complete" event (sse) or the success response (seq).
\* A client gone at this yield changes nothing: the finally block is next
\* either way.
YComplete(j) ==
    /\ server_up
    /\ job[j].pc = "complete"
    /\ job' = [job EXCEPT ![j].events = Append(@, EvComplete(job[j].photos)),
                          ![j].exit = "complete", ![j].pc = "fin1"]
    /\ UNCHANGED <<gvars, num_photos, stream, ctl, pvars, server_up, mjvars, roivars, cfgvars, extvars, cntvars>>

\* "except Exception" of generate(): yields the error event
YException(j) ==
    /\ server_up
    /\ job[j].pc = "exc"
    /\ job' = [job EXCEPT ![j].events = Append(@, EvException), ![j].pc = "fin1"]
    /\ UNCHANGED <<gvars, num_photos, stream, ctl, pvars, server_up, mjvars, roivars, cfgvars, extvars, cntvars>>

\* variant: no finally block; the flag is reset only on the paths that end
\* with a shot failure
Fin1_NoReset(j) ==
    /\ server_up
    /\ job[j].pc = "fin1"
    /\ job' = [job EXCEPT ![j].pc = "fin2"]
    /\ UNCHANGED <<gvars, num_photos, stream, ctl, pvars, server_up, mjvars, roivars, cfgvars, extvars, cntvars>>

\* finally: "capture_in_progress = False", then time.sleep(0.5)
Fin1(j) ==
    /\ server_up
    /\ job[j].pc = "fin1"
    /\ capture_in_progress' = FALSE
    /\ job' = [job EXCEPT ![j].pc = "fin2"]
    /\ UNCHANGED <<streaming_active, mjpeg_process, num_photos, stream, ctl, pvars,
                   server_up, mjvars, roivars, cfgvars, extvars, cntvars>>

\* variant: the cleanup restores the streaming state found at acceptance
Fin2_Restore(j) ==
    /\ server_up
    /\ job[j].pc = "fin2"
    /\ streaming_active' = job[j].sa_before
    /\ job' = [job EXCEPT ![j].pc = "done"]
    /\ UNCHANGED <<capture_in_progress, mjpeg_process, num_photos, stream, ctl, pvars,
                   server_up, mjvars, roivars, cfgvars, extvars, cntvars>>

\* finally: "streaming_active = True"
Fin2(j) ==
    /\ server_up
    /\ job[j].pc = "fin2"
    /\ streaming_active' = TRUE
    /\ job' = [job EXCEPT ![j].pc = "done"]
    /\ UNCHANGED <<capture_in_progress, mjpeg_process, num_photos, stream, ctl, pvars,
                   server_up, mjvars, roivars, cfgvars, extvars, cntvars>>

JobStep(j) ==
    \/ \E e \in Entries : Check(j, e)
    \/ Accept(j)
    \/ YStarting(j)
    \/ YPreparing(j)
    \/ \E outcome \in ReclaimOutcomes : Reclaim(j, outcome)
    \/ Mkdir(j)
    \/ YCapturing(j)
    \/ Launch(j)
    \/ \E ok \in BOOLEAN : ShotEnd(j, ok)
    \/ YCaptured(j)
    \/ YError(j)
    \/ FailReset(j)
    \/ YComplete(j)
    \/ YException(j)
    \/ Fin1(j)
    \/ Fin2(j)

(***************************************************************************)
(* /stream: video_stream and the generator generate_mjpeg_stream           *)
(***************************************************************************)
\* video_stream: "if not streaming_active: return 503", else the response
\* wraps the generator, whose body starts when the server iterates it
VideoStream(s) ==
    /\ server_up
    /\ stream[s].pc = "idle"
    /\ stream' = [stream EXCEPT ![s].pc = IF streaming_active THEN "popen" ELSE "done"]
    /\ UNCHANGED <<gvars, num_photos, job, ctl, pvars, server_up, mjvars, roivars, cfgvars, extvars, cntvars>>

\* "mjpeg_process = subprocess.Popen(cmd, ...)"
Popen(s) ==
    /\ server_up
    /\ stream[s].pc = "popen"
    /\ mjpeg_process' = s
    /\ vid_alive' = vid_alive \cup {s}
    /\ vid_silent' = vid_silent \ {s}
    /\ stream' = [stream EXCEPT ![s].pc = "loop"]
    /\ UNCHANGED <<streaming_active, capture_in_progress, num_photos, job, ctl,
                   shot_alive, still_alive, server_up, mjvars, roivars, cfgvars,
                   shot_outcome, cntvars>>

\* "while streaming_active and mjpeg_process and mjpeg_process.poll() is None"
LoopGuard ==
    /\ streaming_active
    /\ mjpeg_process # None
    /\ mjpeg_process \in vid_alive

LoopTest(s) ==
    /\ server_up
    /\ stream[s].pc = "loop"
    /\ stream' = [stream EXCEPT ![s].pc = IF LoopGuard THEN "read" ELSE "fin_check"]
    /\ UNCHANGED <<gvars, num_photos, job, ctl, pvars, server_up, mjvars, roivars, cfgvars, extvars, cntvars>>

\* one iteration of the loop body on the process the global handle names:
\* a frame is read and yielded (the client may have gone: GeneratorExit), or
\* the read hits end of stream because the process is dead (break), or the
\* handle is None (AttributeError, caught by "except Exception"); after a
\* frame, "if capture_in_progress: time.sleep(0.1)" and back to the test.
\* stdout.read has no timeout: while the process is alive and writes
\* nothing the call does not return
ReadFrame(s) ==
    /\ server_up
    /\ stream[s].pc = "read"
    /\ ~(mjpeg_process # None /\ mjpeg_process \in vid_alive /\ mjpeg_process \in vid_silent)
    /\ IF mjpeg_process # None /\ mjpeg_process \in vid_alive
         THEN \/ stream' = [stream EXCEPT ![s].pc = "loop"]
              \/ stream' = [stream EXCEPT ![s].pc = "fin_check"]
         ELSE stream' = [stream EXCEPT ![s].pc = "fin_check"]
    /\ UNCHANGED <<gvars, num_photos, job, ctl, pvars, server_up, mjvars, roivars, cfgvars, extvars, cntvars>>

\* finally: "if mjpeg_process:"
FinCheck(s) ==
    /\ server_up
    /\ stream[s].pc = "fin_check"
    /\ stream' = [stream EXCEPT ![s].pc = IF mjpeg_process # None THEN "fin_term" ELSE "done"]
    /\ UNCHANGED <<gvars, num_photos, job, ctl, pvars, server_up, mjvars, roivars, cfgvars, extvars, cntvars>>

\* finally: "mjpeg_process.terminate(); mjpeg_process.wait(); mjpeg_process = None"
\* on whatever the global handle names now; on None the call raises
FinTerm(s) ==
    /\ server_up
    /\ stream[s].pc = "fin_term"
    /\ IF mjpeg_process # None
         THEN /\ vid_alive' = vid_alive \ {mjpeg_process}
              /\ mjpeg_process' = None
              /\ stream' = [stream EXCEPT ![s].pc = "done"]
         ELSE /\ stream' = [stream EXCEPT ![s].pc = "crashed"]
              /\ UNCHANGED <<mjpeg_process, vid_alive>>
    /\ UNCHANGED <<streaming_active, capture_in_progress, num_photos, job, ctl,
                   shot_alive, still_alive, server_up, mjvars, roivars, cfgvars, extvars, cntvars>>

\* an rpicam-vid process stops writing to its pipe and stays alive (the
\* camera delivers no frame)
VidStalls(p) ==
    /\ p \in vid_alive
    /\ p \notin vid_silent
    /\ vid_silent' = vid_silent \cup {p}
    /\ UNCHANGED <<gvars, num_photos, job, stream, ctl, pvars, server_up, mjvars, roivars,
                   cfgvars, shot_outcome, cntvars>>

StreamStep(s) ==
    \/ VideoStream(s)
    \/ Popen(s)
    \/ LoopTest(s)
    \/ ReadFrame(s)
    \/ FinCheck(s)
    \/ FinTerm(s)

(***************************************************************************)
(* /api/stream/start, /api/config                                          *)
(***************************************************************************)
\* start_stream: "streaming_active = True", whatever the state
StartStream ==
    /\ server_up
    /\ streaming_active' = TRUE
    /\ UNCHANGED <<capture_in_progress, mjpeg_process, num_photos, job, stream, ctl,
                   pvars, server_up, mjvars, roivars, cfgvars, extvars, cntvars>>

\* update_config: app_config['num_photos'] = value
UpdateConfig(v) ==
    /\ server_up
    /\ num_photos # v
    /\ num_photos' = v
    /\ UNCHANGED <<gvars, job, stream, ctl, pvars, server_up, mjvars, roivars, cfgvars, extvars, cntvars>>

(***************************************************************************)
(* /api/stream/stop, /api/stream/frame, /api/shutdown                      *)
(***************************************************************************)
\* stop_stream: "streaming_active = False"
StopStream1 ==
    /\ server_up
    /\ ctl.pc = "idle"
    /\ streaming_active' = FALSE
    /\ ctl' = [ctl EXCEPT !.pc = "ss_check"]
    /\ UNCHANGED <<capture_in_progress, mjpeg_process, num_photos, job, stream, pvars,
                   server_up, mjvars, roivars, cfgvars, extvars, cntvars>>

\* stop_stream: "if mjpeg_process:"
StopStreamCheck ==
    /\ server_up
    /\ ctl.pc = "ss_check"
    /\ ctl' = [ctl EXCEPT !.pc = IF mjpeg_process # None THEN "ss_term" ELSE "ss_pkill"]
    /\ UNCHANGED <<gvars, num_photos, job, stream, pvars, server_up, mjvars, roivars, cfgvars, extvars, cntvars>>

\* variant: no try/except around the calls on the handle
TerminateOrKill_Unguarded(h) == IF h # None THEN "killed" ELSE "raised"

\* "try: h.terminate(); h.wait(timeout=2)  except: try: h.kill()  except: pass"
\* on the handle h read now: a process is ended ("killed"); on None the
\* AttributeError of terminate() and then of kill() are both swallowed
TerminateOrKill(h) == IF h # None THEN "killed" ELSE "swallowed"

\* stop_stream: the try block, then "mjpeg_process = None"
StopStreamTerm ==
    /\ server_up
    /\ ctl.pc = "ss_term"
    /\ IF TerminateOrKill(mjpeg_process) = "raised"
         THEN /\ ctl' = [ctl EXCEPT !.pc = "raised"]
              /\ UNCHANGED <<mjpeg_process, vid_alive>>
         ELSE /\ vid_alive' = vid_alive \ {mjpeg_process}
              /\ mjpeg_process' = None
              /\ ctl' = [ctl EXCEPT !.pc = "ss_pkill"]
    /\ UNCHANGED <<streaming_active, capture_in_progress, num_photos, job, stream,
                   shot_alive, still_alive, server_up, mjvars, roivars, cfgvars, extvars, cntvars>>

\* stop_stream: "pkill -9 rpicam-vid", sleep(0.2), return {'status': 'stopped'}
StopStreamPkill ==
    /\ server_up
    /\ ctl.pc = "ss_pkill"
    /\ vid_alive' = {}
    /\ ctl' = [ctl EXCEPT !.pc = "idle", !.last = "stop"]
    /\ UNCHANGED <<gvars, num_photos, job, stream, shot_alive, still_alive, server_up, mjvars, roivars, cfgvars, extvars, cntvars>>

\* get_frame: "if capture_in_progress or not streaming_active: return 503"
GetFrameCheck ==
    /\ server_up
    /\ ctl.pc = "idle"
    /\ ctl' = IF capture_in_progress \/ ~streaming_active
                THEN [ctl EXCEPT !.last = "frame"]
                ELSE [ctl EXCEPT !.pc = "gf_run"]
    /\ UNCHANGED <<gvars, num_photos, job, stream, pvars, server_up, mjvars, roivars, cfgvars, extvars, cntvars>>

\* stream_capture: subprocess.run starts rpicam-still at preview resolution
GetFrameRun ==
    /\ server_up
    /\ ctl.pc = "gf_run"
    /\ still_alive' = TRUE
    /\ ctl' = [ctl EXCEPT !.pc = "gf_wait"]
    /\ UNCHANGED <<gvars, num_photos, job, stream, vid_alive, shot_alive, server_up, mjvars, roivars, cfgvars, extvars, cntvars>>

\* stream_capture returns (the process exited, was killed or timed out)
GetFrameEnd ==
    /\ server_up
    /\ ctl.pc = "gf_wait"
    /\ still_alive' = FALSE
    /\ ctl' = [ctl EXCEPT !.pc = "idle", !.last = "frame"]
    /\ UNCHANGED <<gvars, num_photos, job, stream, vid_alive, shot_alive, server_up, mjvars, roivars, cfgvars, extvars, cntvars>>

\* shutdown_server: "streaming_active = False"
Shutdown1 ==
    /\ server_up
    /\ ctl.pc = "idle"
    /\ streaming_active' = FALSE
    /\ ctl' = [ctl EXCEPT !.pc = "sd2"]
    /\ UNCHANGED <<capture_in_progress, mjpeg_process, num_photos, job, stream, pvars,
                   server_up, mjvars, roivars, cfgvars, extvars, cntvars>>

\* shutdown_server: the handle, then pkill -9 rpicam-vid and rpicam-still
Shutdown2 ==
    /\ server_up
    /\ ctl.pc = "sd2"
    /\ mjpeg_process' = None
    /\ vid_alive' = {}
    /\ shot_alive' = {}
    /\ still_alive' = FALSE
    /\ ctl' = [ctl EXCEPT !.pc = "sd3"]
    /\ UNCHANGED <<streaming_active, capture_in_progress, num_photos, job, stream,
                   server_up, mjvars, roivars, cfgvars, extvars, cntvars>>

\* delayed_shutdown: os._exit(0) ends every thread
Exit ==
    /\ server_up
    /\ ctl.pc = "sd3"
    /\ server_up' = FALSE
    /\ UNCHANGED <<gvars, num_photos, job, stream, ctl, pvars, mjvars, roivars, cfgvars, extvars, cntvars>>

(***************************************************************************)
(* The frame loop of generate_mjpeg_stream, byte by byte                   *)
(***************************************************************************)
\* "chunk[0] == 0xFF and chunk[1] == 0xD8"
IsStartMarker(chunk) ==
    /\ Len(chunk) = 2
    /\ chunk[1] = FF
    /\ chunk[2] = D8

\* variant: only the last byte is compared
IsEndMarker_LastByte(frame) ==
    /\ Len(frame) >= 2
    /\ frame[Len(frame)] = D9

\* "len(frame_data) >= 2 and frame_data[-2] == 0xFF and frame_data[-1] == 0xD9"
IsEndMarker(frame) ==
    /\ Len(frame) >= 2
    /\ frame[Len(frame) - 1] = FF
    /\ frame[Len(frame)] = D9

\* stdout.read(n): up to n bytes, fewer only at end of stream
Take(bytes, n) == SubSeq(bytes, 1, IF Len(bytes) < n THEN Len(bytes) ELSE n)
Drop(bytes, n) == SubSeq(bytes, (IF Len(bytes) < n THEN Len(bytes) ELSE n) + 1, Len(bytes))

\* the loop test fails: the generator leaves the loop
MjLoopExit ==
    /\ mj_pc = "loop"
    /\ ~LoopGuard
    /\ mj_pc' = "stopped"
    /\ UNCHANGED <<gvars, num_photos, job, stream, ctl, pvars, server_up,
                   mj_input, mj_rest, mj_frame, mj_out, roivars, cfgvars, extvars, cntvars>>

\* variant: a short chunk is skipped and the scan goes on
MjReadChunk_Continue ==
    /\ mj_pc = "loop"
    /\ LoopGuard
    /\ LET chunk == Take(mj_rest, 2)
       IN  /\ mj_rest' = Drop(mj_rest, 2)
           /\ IF IsStartMarker(chunk)
                THEN /\ mj_pc' = "inner"
                     /\ mj_frame' = chunk
                ELSE /\ mj_pc' = "loop"
                     /\ UNCHANGED mj_frame
    /\ UNCHANGED <<gvars, num_photos, job, stream, ctl, pvars, server_up, mj_input, mj_out, roivars, cfgvars, extvars, cntvars>>

\* "chunk = mjpeg_process.stdout.read(2)" and the start marker test
MjReadChunk ==
    /\ mj_pc = "loop"
    /\ LoopGuard
    /\ LET chunk == Take(mj_rest, 2)
       IN  /\ mj_rest' = Drop(mj_rest, 2)
           /\ IF Len(chunk) # 2
                THEN /\ mj_pc' = "done"
                     /\ UNCHANGED mj_frame
                ELSE IF IsStartMarker(chunk)
                       THEN /\ mj_pc' = "inner"
                            /\ mj_frame' = chunk
                       ELSE /\ mj_pc' = "loop"
                            /\ UNCHANGED mj_frame
    /\ UNCHANGED <<gvars, num_photos, job, stream, ctl, pvars, server_up, mj_input, mj_out, roivars, cfgvars, extvars, cntvars>>

\* variant: the bytes gathered so far are yielded when the stream ends
MjReadByte_FlushPartial ==
    /\ mj_pc = "inner"
    /\ LET byte == Take(mj_rest, 1)
       IN  /\ mj_rest' = Drop(mj_rest, 1)
           /\ IF Len(byte) = 0
                THEN /\ mj_pc' = "loop"
                     /\ mj_out' = Append(mj_out, mj_frame)
                     /\ UNCHANGED mj_frame
                ELSE /\ mj_frame' = mj_frame \o byte
                     /\ IF IsEndMarker(mj_frame \o byte)
                          THEN /\ mj_out' = Append(mj_out, mj_frame \o byte)
                               /\ mj_pc' = "loop"
                          ELSE /\ mj_pc' = "inner"
                               /\ UNCHANGED mj_out
    /\ UNCHANGED <<gvars, num_photos, job, stream, ctl, pvars, server_up, mj_input, roivars, cfgvars, extvars, cntvars>>

\* "byte = mjpeg_process.stdout.read(1)", append, end marker test, yield
MjReadByte ==
    /\ mj_pc = "inner"
    /\ LET byte == Take(mj_rest, 1)
       IN  /\ mj_rest' = Drop(mj_rest, 1)
           /\ IF Len(byte) = 0
                THEN /\ mj_pc' = "loop"
                     /\ UNCHANGED <<mj_frame, mj_out>>
                ELSE /\ mj_frame' = mj_frame \o byte
                     /\ IF IsEndMarker(mj_frame \o byte)
                          THEN /\ mj_out' = Append(mj_out, mj_frame \o byte)
                               /\ mj_pc' = "loop"
                          ELSE /\ mj_pc' = "inner"
                               /\ UNCHANGED mj_out
    /\ UNCHANGED <<gvars, num_photos, job, stream, ctl, pvars, server_up, mj_input, roivars, cfgvars, extvars, cntvars>>

\* the stream process has written its whole output to the pipe and exits,
\* whether or not the generator has read it yet
MjProcessExit ==
    /\ mj_pc \in {"loop", "inner"}
    /\ mjpeg_process \in vid_alive
    /\ vid_alive' = vid_alive \ {mjpeg_process}
    /\ UNCHANGED <<gvars, num_photos, job, stream, ctl, shot_alive, still_alive,
                   server_up, mjvars, roivars, cfgvars, extvars, cntvars>>

\* byte strings of at most MaxPayload bytes
Payloads == UNION {[1..k -> Bytes] : k \in 0..MaxPayload}

\* FF D8 <a> FF D9 FF D8 <b> FF D9
TwoFrames(a, b) == <<FF, D8>> \o a \o <<FF, D9, FF, D8>> \o b \o <<FF, D9>>

\* n bytes that belong to no marker
Junk(n) == [x \in 1..n |-> 0]

\* <n bytes> FF D8 <a> FF D9
JunkThenFrame(n, a) == Junk(n) \o <<FF, D8>> \o a \o <<FF, D9>>

\* FF D8 <a> FF D9 FF D8 <b>: the stream ends inside the second frame
FrameThenPartial(a, b) == <<FF, D8>> \o a \o <<FF, D9, FF, D8>> \o b

MjInputs ==
    {TwoFrames(a, b) : a \in Payloads, b \in Payloads}
        \cup {JunkThenFrame(n, a) : n \in 0..MaxJunk, a \in Payloads}
        \cup {FrameThenPartial(a, b) : a \in Payloads, b \in Payloads}

\* a /stream session in its frame loop: stream requested and started, the
\* process launched, its whole output waiting in the pipe
InitMjpeg ==
    /\ streaming_active = TRUE
    /\ capture_in_progress = FALSE
    /\ mjpeg_process = "s1"
    /\ num_photos \in {MaxPhotos}
    /\ job = [j \in Jobs |-> JobInit]
    /\ stream = [s \in Streams |-> IF s = "s1" THEN [pc |-> "read"] ELSE StreamInit]
    /\ ctl = CtlInit
    /\ vid_alive = {"s1"}
    /\ shot_alive = {}
    /\ still_alive = FALSE
    /\ server_up = TRUE
    /\ mj_input \in MjInputs
    /\ mj_rest = mj_input
    /\ mj_pc = "loop"
    /\ mj_frame = <<>>
    /\ mj_out = <<>>
    /\ RoiIdle
    /\ ExtIdle

(***************************************************************************)
(* scale_rois_to_capture_resolution                                        *)
(***************************************************************************)
\* variant: rounds to the nearest integer
Trunc_Nearest(n, d) ==
    IF n >= 0 THEN (2 * n + d) \div (2 * d) ELSE -((2 * (-n) + d) \div (2 * d))

\* int(n / d) for d > 0: the quotient truncated toward zero
Trunc(n, d) == IF n >= 0 THEN n \div d ELSE -((-n) \div d)

\* int(v * SCALE_FACTOR) with SCALE_FACTOR = capture / preview, a double.
\* For the coordinates and resolutions used here (|v| <= 5000) the double
\* product truncates to the same integer as the exact quotient v * c / p.
ScaleCoord(v, capture, preview) == Trunc(v * capture, preview)

\* variant: width and height are scaled as the far corner x + width,
\* y + height
ScaleRoi_Corners(roi, res) ==
    [x      |-> ScaleCoord(roi.x, res.cw, res.sw),
     y      |-> ScaleCoord(roi.y, res.ch, res.sh),
     width  |-> ScaleCoord(roi.x + roi.width, res.cw, res.sw),
     height |-> ScaleCoord(roi.y + roi.height, res.ch, res.sh)]

\* variant: the scaled ROI is cut to the capture image
ScaleRoi_Clamped(roi, res) ==
    LET Clamp(v, hi) == IF v < 0 THEN 0 ELSE IF v > hi THEN hi ELSE v
        x == Clamp(ScaleCoord(roi.x, res.cw, res.sw), res.cw)
        y == Clamp(ScaleCoord(roi.y, res.ch, res.sh), res.ch)
    IN  [x      |-> x,
         y      |-> y,
         width  |-> Clamp(ScaleCoord(roi.width, res.cw, res.sw), res.cw - x),
         height |-> Clamp(ScaleCoord(roi.height, res.ch, res.sh), res.ch - y)]

\* the dict built for one ROI
ScaleRoi(roi, res) ==
    [x      |-> ScaleCoord(roi.x, res.cw, res.sw),
     y      |-> ScaleCoord(roi.y, res.ch, res.sh),
     width  |-> ScaleCoord(roi.width, res.cw, res.sw),
     height |-> ScaleCoord(roi.height, res.ch, res.sh)]

\* update_config with a camera_command key
UpdateConfigCommand(c) ==
    /\ server_up
    /\ camera_command # c
    /\ camera_command' = c
    /\ UNCHANGED <<gvars, num_photos, job, stream, ctl, pvars, server_up, mjvars, roivars,
                   capture_delay, extvars, cntvars>>

\* update_config with a capture_delay key
UpdateConfigDelay(d) ==
    /\ server_up
    /\ capture_delay # d
    /\ capture_delay' = d
    /\ UNCHANGED <<gvars, num_photos, job, stream, ctl, pvars, server_up, mjvars, roivars,
                   camera_command, extvars, cntvars>>

\* the whole function: the list of the scaled ROIs, in order
ScaleRois ==
    /\ ~scaled_rois.returned
    /\ scaled_rois' = [returned |-> TRUE,
                       rois |-> [k \in 1..Len(streaming_rois) |->
                                    ScaleRoi(streaming_rois[k], resolution)]]
    /\ UNCHANGED <<gvars, num_photos, job, stream, ctl, pvars, server_up, mjvars,
                   resolution, streaming_rois, cfgvars, extvars, cntvars>>

\* the ROI of the documented example
ExampleRoi == [x |-> 117, y |-> 89, width |-> 141, height |-> 19]

Coords == (-MaxCoord)..MaxCoord
Rois == [x : Coords, y : Coords, width : Coords, height : Coords]

\* an ROI that reaches beyond the right and bottom edges of the preview image
OutsideRoi == [x |-> 400, y |-> 300, width |-> 100, height |-> 50]

\* lists of no, one and two ROIs
RoiLists ==
    {<<>>} \cup {<<r>> : r \in Rois} \cup {<<r, ExampleRoi>> : r \in Rois}
        \cup {<<OutsideRoi, r>> : r \in Rois}

\* the server's resolutions, and a capture resolution equal to the preview
\* resolution (both scale factors 1.0)
Resolutions ==
    {ServerResolution,
     [sw |-> STREAM_WIDTH, sh |-> STREAM_HEIGHT, cw |-> STREAM_WIDTH, ch |-> STREAM_HEIGHT]}

\* a call of scale_rois_to_capture_resolution on one list of ROIs
InitScale ==
    /\ streaming_active = FALSE
    /\ capture_in_progress = FALSE
    /\ mjpeg_process = None
    /\ num_photos \in {MaxPhotos}
    /\ job = [j \in Jobs |-> JobInit]
    /\ stream = [s \in Streams |-> StreamInit]
    /\ ctl = CtlInit
    /\ vid_alive = {}
    /\ shot_alive = {}
    /\ still_alive = FALSE
    /\ server_up = TRUE
    /\ MjIdle
    /\ ExtIdle
    /\ resolution \in Resolutions
    /\ streaming_rois \in RoiLists
    /\ scaled_rois = NoResult

(***************************************************************************)
(* Specifications                                                          *)
(***************************************************************************)
\* two capture clients, with /api/stream/start and /api/config requests
Next ==
    \/ \E j \in Jobs : JobStep(j)
    \/ StartStream
    \/ \E v \in NumPhotosValues : UpdateConfig(v)

Spec == Init /\ [][Next]_vars

\* one capture client, one /stream client, and the thread serving
\* /api/stream/stop, /api/stream/frame and /api/shutdown
NextCam ==
    \/ JobStep("j1")
    \/ StreamStep("s1")
    \/ StartStream
    \/ \E v \in NumPhotosValues : UpdateConfig(v)
    \/ StopStream1
    \/ StopStreamCheck
    \/ StopStreamTerm
    \/ StopStreamPkill
    \/ GetFrameCheck
    \/ GetFrameRun
    \/ GetFrameEnd
    \/ Shutdown1
    \/ Shutdown2
    \/ Exit

SpecCam == Init /\ [][NextCam]_vars

\* the frame loop fed one byte stream
NextMjpeg ==
    \/ MjReadChunk
    \/ MjReadByte
    \/ MjLoopExit
    \/ MjProcessExit

SpecMjpeg == InitMjpeg /\ [][NextMjpeg]_vars

\* a /stream session is producing frames: /api/stream/start was requested,
\* the session s1 passed the test of video_stream, launched its stream
\* process and is at its loop test; no capture request has been made yet
InitStreaming ==
    /\ streaming_active = TRUE
    /\ capture_in_progress = FALSE
    /\ mjpeg_process = "s1"
    /\ num_photos \in NumPhotosValues
    /\ job = [j \in Jobs |-> JobInit]
    /\ stream = [s \in Streams |-> IF s = "s1" THEN [pc |-> "loop"] ELSE StreamInit]
    /\ ctl = CtlInit
    /\ vid_alive = {"s1"}
    /\ shot_alive = {}
    /\ still_alive = FALSE
    /\ server_up = TRUE
    /\ MjIdle
    /\ ExtIdle
    /\ RoiIdle

\* one capture client and two /stream clients, with /api/stream/start
\* requests; the configuration is not changed
NextStreams ==
    \/ JobStep("j1")
    \/ \E s \in Streams : StreamStep(s)
    \/ StartStream

SpecStreams == InitStreaming /\ [][NextStreams]_vars

\* the capture job j1 has been accepted, has prepared the camera and has
\* launched its first shot; no other capture request has been made yet
InitHandoff ==
    /\ streaming_active = FALSE
    /\ capture_in_progress = TRUE
    /\ mjpeg_process = None
    /\ num_photos \in NumPhotosValues
    /\ \E e \in Entries : \E n \in 1..MaxPhotos :
           job = [j \in Jobs |->
                    IF j = "j1"
                      THEN [JobInit EXCEPT
                              !.pc = "shot", !.entry = e, !.i = 1, !.shots = 1,
                              !.used = <<DefaultCommand>>,
                              !.cmd = IF e = "seq" THEN None ELSE DefaultCommand,
                              !.delay = IF e = "seq" THEN None ELSE DefaultDelay,
                              !.n = IF e = "seq" THEN LegacyPhotos ELSE n,
                              !.events = IF e = "seq" THEN <<>>
                                         ELSE <<EvStarting, EvPreparing, EvCapturing(1, n)>>]
                      ELSE JobInit]
    /\ stream = [s \in Streams |-> StreamInit]
    /\ ctl = CtlInit
    /\ vid_alive = {}
    /\ shot_alive = {"j1"}
    /\ still_alive = FALSE
    /\ server_up = TRUE
    /\ MjIdle
    /\ ExtIdle
    /\ RoiIdle

\* two capture clients, the first already running when the second makes
\* its request
NextHandoff == \E j \in Jobs : JobStep(j)

SpecHandoff == InitHandoff /\ [][NextHandoff]_vars

\* scale_rois_to_capture_resolution applied to one list of ROIs
NextScale == ScaleRois

(***************************************************************************)
(* HSVAnalyzer._count_pixels_in_roi (src/hsv_analyzer.py)                  *)
(***************************************************************************)
\* a bound v of a slice of an axis of length len, as numpy takes it: a
\* negative bound counts from the end, and the result is cut to 0..len
SliceBound(v, len) ==
    IF v < 0 THEN (IF v + len < 0 THEN 0 ELSE v + len)
             ELSE (IF v > len THEN len ELSE v)

\* the indices selected by the slice a:b of an axis of length len
SliceIndices(a, b, len) ==
    {k \in 0..(len - 1) : SliceBound(a, len) <= k /\ k < SliceBound(b, len)}

\* the pixels <<row, column>> of "mask[y:y+h, x:x+w]"
RoiMask(roi) ==
    SliceIndices(roi.y, roi.y + roi.height, MaskSize)
        \X SliceIndices(roi.x, roi.x + roi.width, MaskSize)

\* the function: slices the mask and returns cv2.countNonZero of the slice.
\* What countNonZero does with a slice of no pixels depends on the OpenCV
\* build: it returns 0 or raises cv2.error.
CountPixelsInRoi ==
    /\ ~count_result.returned
    /\ \/ count_result' = [returned |-> TRUE, raised |-> FALSE,
                           count |-> Cardinality(count_mask \cap RoiMask(count_roi))]
       \/ /\ RoiMask(count_roi) = {}
          /\ count_result' = [returned |-> TRUE, raised |-> TRUE, count |-> 0]
    /\ UNCHANGED <<gvars, num_photos, job, stream, ctl, pvars, server_up, mjvars, roivars,
                   cfgvars, extvars, count_mask, count_roi>>

\* the pixels of a mask image
Pixels == (0..(MaskSize - 1)) \X (0..(MaskSize - 1))

\* masks: every pixel matched, or one pixel matched
Masks == {Pixels} \cup {{px} : px \in Pixels}

\* ROIs around and beyond the image
CountCoords == (-MaskSize)..(MaskSize + 1)
CountRois == [x : CountCoords, y : CountCoords, width : CountCoords, height : CountCoords]

\* a call of _count_pixels_in_roi on one mask and one ROI
InitCount ==
    /\ streaming_active = FALSE
    /\ capture_in_progress = FALSE
    /\ mjpeg_process = None
    /\ num_photos \in {MaxPhotos}
    /\ job = [j \in Jobs |-> JobInit]
    /\ stream = [s \in Streams |-> StreamInit]
    /\ ctl = CtlInit
    /\ vid_alive = {}
    /\ shot_alive = {}
    /\ still_alive = FALSE
    /\ server_up = TRUE
    /\ MjIdle
    /\ RoiIdle
    /\ camera_command = DefaultCommand
    /\ capture_delay = DefaultDelay
    /\ shot_outcome = NoOutcome
    /\ vid_silent = {}
    /\ count_mask \in Masks
    /\ count_roi \in CountRois
    /\ count_result = NoCount

NextCount == CountPixelsInRoi

SpecCount == InitCount /\ [][NextCount]_vars

\* the clients of SpecStreams, with stream processes that may stop writing
NextStall ==
    \/ NextStreams
    \/ \E p \in Streams : VidStalls(p)

SpecStall == InitStreaming /\ [][NextStall]_vars

\* a capture job inside the analysis_capture call of its first shot, the
\* rpicam-still run of that call about to end in one of ShotOutcomes
InitShot ==
    /\ streaming_active = FALSE
    /\ capture_in_progress = TRUE
    /\ mjpeg_process = None
    /\ num_photos \in NumPhotosValues
    /\ \E e \in Entries : \E n \in 1..MaxPhotos :
           job = [j \in Jobs |->
                    IF j = "j1"
                      THEN [JobInit EXCEPT
                              !.pc = "shot", !.entry = e, !.i = 1, !.shots = 1,
                              !.used = <<DefaultCommand>>,
                              !.cmd = IF e = "seq" THEN None ELSE DefaultCommand,
                              !.delay = IF e = "seq" THEN None ELSE DefaultDelay,
                              !.n = IF e = "seq" THEN LegacyPhotos ELSE n,
                              !.events = IF e = "seq" THEN <<>>
                                         ELSE <<EvStarting, EvPreparing, EvCapturing(1, n)>>]
                      ELSE JobInit]
    /\ stream = [s \in Streams |-> StreamInit]
    /\ ctl = CtlInit
    /\ vid_alive = {}
    /\ shot_alive = {"j1"}
    /\ still_alive = FALSE
    /\ server_up = TRUE
    /\ MjIdle
    /\ RoiIdle
    /\ camera_command = DefaultCommand
    /\ capture_delay = DefaultDelay
    /\ shot_outcome \in ShotOutcomes
    /\ vid_silent = {}
    /\ count_mask = {}
    /\ count_roi = [x |-> 0, y |-> 0, width |-> 0, height |-> 0]
    /\ count_result = NoCount

\* the call returns, and the job goes on from there up to its next shot
NextShot ==
    \/ ShotReturn("j1")
    \/ job["j1"].pc # "shot" /\ JobStep("j1")

SpecShot == InitShot /\ [][NextShot]_vars

\* one capture client, with /api/config requests that change the number of
\* photos, the camera command and the inter-shot delay
NextConfig ==
    \/ JobStep("j1")
    \/ \E v \in NumPhotosValues : UpdateConfig(v)
    \/ \E c \in Commands : UpdateConfigCommand(c)
    \/ \E d \in DelayValues : UpdateConfigDelay(d)

SpecConfig == Init /\ [][NextConfig]_vars

SpecScale == InitScale /\ [][NextScale]_vars

(***************************************************************************)
(* Claims                                                                  *)
(***************************************************************************)
\* a job holds the device: it has set capture_in_progress and its cleanup
\* (the finally block) has not finished
Holding(j) == job[j].pc \notin {"idle", "accept", "done"}

NoJobHolding == \A j \in Jobs : ~Holding(j)

\* C1: capture jobs are mutually exclusive in any interleaving: a request
\* arriving between another job's acceptance and the end of that job's
\* cleanup is rejected, so two capture jobs never hold the device at once.
C1_MutualExclusion ==
    \A a \in Jobs : \A b \in Jobs : (a # b) => ~(Holding(a) /\ Holding(b))

\* C2: once no capture job is running, whatever the exit path of the jobs
\* that ran (all shots taken, a failed shot, an exception, a client gone at
\* a yield), capture_in_progress is False.
C2_NotLeftCapturing ==
    (\A j \in Jobs : job[j].pc \in {"idle", "accept", "done"}) => ~capture_in_progress

C2_Witness ==
    /\ job["j1"].pc = "done"
    /\ job["j1"].exit = "disconnect"
    /\ job["j1"].shots >= 1
    /\ job["j2"].pc = "done"
    /\ job["j2"].exit = "exception"
    /\ ~capture_in_progress

\* C3: the device state has one value at a time: streaming_active and
\* capture_in_progress are never both True.
C3_OneDeviceState == ~(streaming_active /\ capture_in_progress)

\* C4: the two consumers never contend for the camera: no preview process
\* (rpicam-vid of /stream, rpicam-still of /api/stream/frame) is alive while
\* a high-resolution shot of a capture job is running.
C4_NoContention ==
    (shot_alive # {}) => (vid_alive = {} /\ ~still_alive)

\* C5: a stream request made while a capture job is in progress fails and
\* leaves streaming_active False.
C5_StartStreamRefusedDuringCapture ==
    [][(capture_in_progress /\ StartStream) => ~streaming_active']_vars

\* the events of shots 1..k of an n-shot job, all successful:
\* capturing(1,n), captured(1,n), ..., capturing(k,n), captured(k,n)
ShotPairs(k, n) ==
    [x \in 1..(2 * k) |-> IF x % 2 = 1 THEN EvCapturing((x + 1) \div 2, n)
                                      ELSE EvCaptured(x \div 2, n)]

Statuses(evs) == {evs[x].status : x \in 1..Len(evs)}

\* C6: in a job of N shots whose launcher fails at step k (shots 1..k-1
\* succeeded), the events end with the error event of step k, captured
\* events exist for steps 1..k-1 only, there is no complete event, shot k is
\* the last one attempted, and after the cleanup, with no other job holding
\* the device, capture_in_progress is False and streaming_active is True.
C6_FailureAtStepK ==
    \A j \in Jobs :
        (job[j].exit = "shotfail" /\ job[j].pc \in {"fail_reset", "fin1", "fin2", "done"}) =>
            LET k == job[j].i
                n == job[j].n
                evs == job[j].events
            IN  /\ 1 <= k /\ k <= n
                /\ job[j].shots = k
                /\ job[j].photos = [x \in 1..(k - 1) |-> x]
                /\ "complete" \notin Statuses(evs)
                /\ (job[j].entry = "sse" /\ (job[j].pc # "fail_reset")) =>
                       evs = <<EvStarting, EvPreparing>> \o ShotPairs(k - 1, n)
                               \o <<EvCapturing(k, n), EvShotFailed(k, n)>>
                /\ (job[j].entry = "seq" /\ (job[j].pc # "fail_reset")) =>
                       evs = <<EvShotFailed(k, LegacyPhotos)>>
                /\ (job[j].pc = "done" /\ NoJobHolding) =>
                       (~capture_in_progress /\ streaming_active)

C6_Witness ==
    /\ job["j1"].pc = "done"
    /\ job["j1"].entry = "sse"
    /\ job["j1"].exit = "shotfail"
    /\ job["j1"].n = 2
    /\ job["j1"].i = 2
    /\ ~job["j1"].disc
    /\ NoJobHolding
    /\ streaming_active

\* C7: a fully successful run of capture_sequence_stream with N photos
\* emits exactly starting, preparing, then capturing(i,N) immediately
\* followed by captured(i,N,file i) for i = 1..N in increasing order, then
\* complete, and nothing else.
C7_SuccessfulRunEvents ==
    \A j \in Jobs :
        (job[j].entry = "sse" /\ job[j].exit = "complete") =>
            job[j].events =
                <<EvStarting, EvPreparing>> \o ShotPairs(job[j].n, job[j].n)
                    \o <<EvComplete([x \in 1..job[j].n |-> x])>>

C7_Witness ==
    /\ job["j1"].entry = "sse"
    /\ job["j1"].exit = "complete"
    /\ job["j1"].pc = "done"
    /\ job["j1"].n = 2
    /\ Len(job["j1"].events) = 7

\* C8: the step that completes the cleanup of an accepted job leaves
\* streaming_active True, whatever the outcome of the job and whatever
\* streaming_active was when the job was accepted.
C8_EndsStreaming ==
    [][\A j \in Jobs :
          (job[j].pc = "fin2" /\ job'[j].pc = "done") => streaming_active']_vars

C8_Witness ==
    /\ job["j1"].pc = "done"
    /\ job["j1"].exit = "shotfail"
    /\ ~job["j1"].sa_before
    /\ job["j2"].pc = "idle"
    /\ streaming_active

\* a step of the stop_stream handler
StopStreamStep ==
    \/ ctl.pc = "idle" /\ ctl'.pc = "ss_check"
    \/ ctl.pc \in {"ss_check", "ss_term", "ss_pkill"} /\ ctl'.pc # ctl.pc

\* nothing is left to stop: flag down, no handle, no rpicam-vid process
Stopped == ~streaming_active /\ mjpeg_process = None /\ vid_alive = {}

\* C9: stop_stream is idempotent: it never raises, its first statement
\* leaves streaming_active False, the end of its "if mjpeg_process:" block
\* leaves mjpeg_process None, and run when everything is already stopped
\* (a second call in a row, or no stream process at all) it changes nothing.
C9_StopStreamIdempotent ==
    [][StopStreamStep =>
          /\ ctl'.pc # "raised"
          /\ (ctl.pc = "idle") => ~streaming_active'
          /\ (ctl.pc = "ss_term") => (mjpeg_process' = None)
          /\ (ctl'.pc = "ss_pkill") => (mjpeg_process' = None)
          /\ Stopped => UNCHANGED <<gvars, pvars>>]_vars

\* a second stop_stream call in a row is about to return
C9_Witness ==
    /\ ctl.last = "stop"
    /\ ctl.pc = "ss_pkill"
    /\ Stopped

\* the frame loop is over and has read the stream to its end
MjFinished == mj_pc \in {"done", "stopped"} /\ mj_rest = <<>>

\* the stream fed to the loop is FF D8 <k bytes> FF D9 FF D8 <m bytes> FF D9
PayloadK(k) == SubSeq(mj_input, 3, 2 + k)
PayloadM(k, m) == SubSeq(mj_input, 7 + k, 6 + k + m)
IsTwoFrames(k, m) ==
    /\ Len(mj_input) = k + m + 8
    /\ mj_input = TwoFrames(PayloadK(k), PayloadM(k, m))

\* the bytes FF D9 occur next to each other in p
HasEndMarker(p) == \E x \in 1..(Len(p) - 1) : p[x] = FF /\ p[x + 1] = D9

\* C10 as stated: fed FF D8 <k bytes> FF D9 FF D8 <m bytes> FF D9 and then
\* end of stream, for every k, m and every content of the payloads, the
\* frame loop yields exactly two frames, of length k+4 and m+4, in order.
C10_TwoFramesAnyContent ==
    MjFinished =>
        \A k \in 0..MaxPayload : \A m \in 0..MaxPayload :
            IsTwoFrames(k, m) =>
                /\ Len(mj_out) = 2
                /\ Len(mj_out[1]) = k + 4
                /\ Len(mj_out[2]) = m + 4

\* C10 amended: the same for every content of the payloads in which the
\* bytes FF D9 do not occur next to each other; the two frames are then the
\* two spans FF D8 ... FF D9 of the stream.
C10_TwoFrames ==
    MjFinished =>
        \A k \in 0..MaxPayload : \A m \in 0..MaxPayload :
            (/\ IsTwoFrames(k, m)
             /\ ~HasEndMarker(PayloadK(k))
             /\ ~HasEndMarker(PayloadM(k, m))) =>
                /\ Len(mj_out) = 2
                /\ Len(mj_out[1]) = k + 4
                /\ Len(mj_out[2]) = m + 4
                /\ mj_out[1] = <<FF, D8>> \o PayloadK(k) \o <<FF, D9>>
                /\ mj_out[2] = <<FF, D8>> \o PayloadM(k, m) \o <<FF, D9>>

C10_Witness ==
    /\ MjFinished
    /\ mj_pc = "done"
    /\ mj_input = TwoFrames(<<D9, FF>>, <<D8>>)
    /\ Len(mj_out) = 2
    /\ Len(mj_out[1]) = 6
    /\ Len(mj_out[2]) = 5

\* the positions in evs of the terminal events (status complete or error)
Terminals(evs) == {x \in 1..Len(evs) : evs[x].status \in {"complete", "error"}}

\* the job has returned from its handler or generator body and is in or past
\* its cleanup
Returned(j) == job[j].pc \in {"fin1", "fin2", "done"}

\* C11: a capture job never emits an event after a terminal event (complete
\* or error); an accepted job whose client stayed connected has emitted
\* exactly one terminal event when it returns, as its last event; a rejected
\* request has emitted exactly one event, the "Capture already in progress"
\* error.
C11_OneTerminalEvent ==
    \A j \in Jobs :
        LET evs == job[j].events
        IN  /\ Terminals(evs) \subseteq {Len(evs)}
            /\ (Returned(j) /\ ~job[j].disc) => Terminals(evs) = {Len(evs)} /\ Len(evs) >= 1
            /\ (job[j].exit = "rejected") => evs = <<EvBusy>>

C11_Witness ==
    /\ job["j1"].pc = "done"
    /\ job["j1"].entry = "sse"
    /\ job["j1"].exit = "shotfail"
    /\ ~job["j1"].disc
    /\ Len(job["j1"].events) = 6
    /\ job["j2"].exit = "rejected"
    /\ job["j2"].events = <<EvBusy>>

\* C12 as stated: a successful capture job, from either entry point, has
\* taken exactly num_photos photos (the configuration does not change while
\* the job runs).
C12_ConfiguredCount ==
    \A j \in Jobs :
        (job[j].exit = "complete") =>
            /\ Len(job[j].photos) = num_photos
            /\ job[j].shots = num_photos

\* C12 amended: a successful job of capture_sequence_stream has taken
\* exactly num_photos photos, numbered 1..num_photos, in num_photos shots;
\* a successful job of capture_sequence has taken exactly 3, whatever
\* num_photos is.
C12_CountByEntry ==
    \A j \in Jobs :
        (job[j].exit = "complete") =>
            LET want == IF job[j].entry = "sse" THEN num_photos ELSE LegacyPhotos
            IN  /\ job[j].photos = [x \in 1..want |-> x]
                /\ job[j].shots = want

C12_Witness ==
    /\ job["j1"].entry = "sse"
    /\ job["j1"].exit = "complete"
    /\ num_photos = 2
    /\ Len(job["j1"].photos) = 2

\* C13: a capture job does not end a stream session that is producing
\* frames when the job begins: the session s1, which has been in its frame
\* loop since before any capture request, does not leave the loop at the
\* loop test while its stream process is running (launched by it, named by
\* the handle, alive); with no stop request it pauses during a capture job
\* and produces frames again afterwards.
C13_PausesNotTerminates ==
    [][(stream["s1"].pc = "loop" /\ mjpeg_process = "s1" /\ "s1" \in vid_alive) =>
           stream'["s1"].pc # "fin_check"]_vars

\* the function has returned
Scaled == scaled_rois.returned

\* both scale factors are 1.0
UnitScale == resolution.cw = resolution.sw /\ resolution.ch = resolution.sh

\* C14: with scale factor 1.0 on both axes (capture resolution equal to
\* preview resolution), scale_rois_to_capture_resolution returns every ROI
\* unchanged, for ROIs with integer x, y, width, height.
C14_UnitScaleIdentity ==
    (Scaled /\ UnitScale) => scaled_rois.rois = streaming_rois

C14_Witness ==
    /\ Scaled
    /\ UnitScale
    /\ streaming_rois = <<[x |-> -2, y |-> 1, width |-> 2, height |-> -1], ExampleRoi>>
    /\ scaled_rois.rois = streaming_rois

\* r is v * c / p truncated toward zero (p > 0)
IsTruncation(r, v, c, p) ==
    IF v * c >= 0 THEN r * p <= v * c /\ v * c < (r + 1) * p
                  ELSE r * p >= v * c /\ v * c > (r - 1) * p

\* every value of the result is the truncation toward zero of the input
\* value multiplied by its axis factor
AllTruncated ==
    /\ Len(scaled_rois.rois) = Len(streaming_rois)
    /\ \A k \in 1..Len(streaming_rois) :
           LET in == streaming_rois[k]
               out == scaled_rois.rois[k]
           IN  /\ IsTruncation(out.x, in.x, resolution.cw, resolution.sw)
               /\ IsTruncation(out.width, in.width, resolution.cw, resolution.sw)
               /\ IsTruncation(out.y, in.y, resolution.ch, resolution.sh)
               /\ IsTruncation(out.height, in.height, resolution.ch, resolution.sh)

\* the example ROI is in the list scaled from 406x304 to 4056x3040
ExampleScaled(k) ==
    /\ Scaled
    /\ resolution = ServerResolution
    /\ k \in 1..Len(streaming_rois)
    /\ streaming_rois[k] = ExampleRoi

CleanupStep(a) ==
    /\ job[a].pc \in {"fail_reset", "fin1", "fin2"}
    /\ job'[a].pc # job[a].pc

\* job b has been accepted and has not reached its own cleanup
Running(b) == Holding(b) /\ job[b].pc \notin {"fail_reset", "fin1", "fin2"}

\* C16: a job's return to Streaming is atomic with respect to other
\* requests: once the later job j2 has been accepted, no remaining cleanup
\* step of the earlier job j1 changes capture_in_progress or
\* streaming_active while j2 is running.
C16_AtomicHandBack ==
    [][(CleanupStep("j1") /\ Running("j2")) =>
           UNCHANGED <<capture_in_progress, streaming_active>>]_vars

\* job j launches its first high-resolution shot
FirstLaunch(j) ==
    /\ job[j].pc = "launch"
    /\ job[j].shots = 0
    /\ job'[j].pc = "shot"

\* C17: the first high-resolution shot of an accepted job is launched only
\* after the stream was stopped and the drain delay waited, also when the
\* defensive process-kill step itself fails: the rpicam-vid process of the
\* session s1, which was streaming before the capture request, is no
\* longer alive when the job launches its first shot.
C17_StreamStoppedBeforeFirstShot ==
    [][FirstLaunch("j1") => "s1" \notin vid_alive]_vars

\* C18: with any number of concurrent /stream clients, at most one
\* rpicam-vid process launched by the server is alive at a time, and no
\* launched process runs without a handle: every live stream process is the
\* one mjpeg_process names.
C18_OneOwnedStreamProcess ==
    /\ Cardinality(vid_alive) <= 1
    /\ \A p \in vid_alive : mjpeg_process = p

\* C19: while capture_in_progress is True, generate_mjpeg_stream emits no
\* frame: no iteration of a session's frame loop reads and yields a frame
\* (and goes back to the loop test) while the flag is set.
C19_NoFrameDuringCapture ==
    [][\A s \in Streams :
          (stream[s].pc = "read" /\ stream'[s].pc = "loop") => ~capture_in_progress]_vars

\* the stream fed to the loop is <n bytes> FF D8 <k bytes> FF D9
PayloadAfter(n, k) == SubSeq(mj_input, n + 3, n + 2 + k)
IsJunkThenFrame(n, k) ==
    /\ Len(mj_input) = n + k + 4
    /\ mj_input = JunkThenFrame(n, PayloadAfter(n, k))

\* C20: the extractor finds the start-of-image marker by scanning the byte
\* stream: for any number n, even or odd, of non-marker bytes preceding it,
\* the complete frame FF D8 ... FF D9 of the stream (its payload free of
\* the end marker) is found and emitted as one frame.
C20_FrameFoundAtAnyOffset ==
    MjFinished =>
        \A n \in 0..MaxJunk : \A k \in 0..MaxPayload :
            (IsJunkThenFrame(n, k) /\ ~HasEndMarker(PayloadAfter(n, k))) =>
                mj_out = << <<FF, D8>> \o PayloadAfter(n, k) \o <<FF, D9>> >>

\* an iteration of the frame loop reads fewer than 2 bytes at the marker
\* test while the stream process is running (the step is the read, not the
\* exit of the process)
ShortReadStep ==
    /\ mj_pc = "loop"
    /\ LoopGuard
    /\ Len(mj_rest) < 2
    /\ vid_alive' = vid_alive

\* C21 as stated: a read that returns fewer than 2 bytes at the marker
\* test, while the stream process is running, does not end the frame
\* sequence: the loop goes on scanning.
C21_ShortReadContinues ==
    [][ShortReadStep => mj_pc' = "loop"]_vars

\* C21 amended: a read that returns fewer than 2 bytes at the marker test
\* ends the frame sequence: the loop is left, the pipe holds nothing more
\* (the read is short only at the end of the stream), no frame is emitted
\* by that step nor after it.
C21_ShortReadEndsSequence ==
    [][/\ ShortReadStep => (mj_pc' = "done" /\ mj_rest' = <<>> /\ mj_out' = mj_out)
       /\ mj_pc = "done" => (mj_pc' = "done" /\ mj_out' = mj_out)]_vars

C21_Witness ==
    /\ mj_pc = "done"
    /\ mjpeg_process \in vid_alive
    /\ mj_input = JunkThenFrame(1, <<>>)
    /\ mj_rest = <<>>

\* the stream fed to the loop is FF D8 <k bytes> FF D9 FF D8 <m bytes>
PartialM(k, m) == SubSeq(mj_input, 7 + k, 6 + k + m)
IsFrameThenPartial(k, m) ==
    /\ Len(mj_input) = k + m + 6
    /\ mj_input = FrameThenPartial(PayloadK(k), PartialM(k, m))

\* C22: when the stream ends after a start marker and before the matching
\* end marker, nothing is emitted for the partial frame: every emitted
\* frame starts with FF D8 and ends with FF D9, and the frame emitted
\* before the partial one is the complete frame of the stream, unchanged.
C22_PartialFrameDiscarded ==
    /\ \A x \in 1..Len(mj_out) :
          /\ Len(mj_out[x]) >= 4
          /\ SubSeq(mj_out[x], 1, 2) = <<FF, D8>>
          /\ SubSeq(mj_out[x], Len(mj_out[x]) - 1, Len(mj_out[x])) = <<FF, D9>>
    /\ MjFinished =>
          \A k \in 0..MaxPayload : \A m \in 0..MaxPayload :
              (/\ IsFrameThenPartial(k, m)
               /\ ~HasEndMarker(PayloadK(k))
               /\ ~HasEndMarker(PartialM(k, m))) =>
                  mj_out = << <<FF, D8>> \o PayloadK(k) \o <<FF, D9>> >>

C22_Witness ==
    /\ MjFinished
    /\ mj_pc = "done"
    /\ IsFrameThenPartial(1, 2)
    /\ PartialM(1, 2) = <<0, FF>>
    /\ Len(mj_out) = 1

\* C23: the configuration is read once per job: every shot of a job, from
\* either capture entry point, is taken with the same camera command,
\* whatever update_config does while the job runs.
C23_ConfigReadOnce ==
    \A j \in Jobs : \A x \in 1..Len(job[j].used) : job[j].used[x] = job[j].used[1]

\* the generator of job j has resumed after the yield of captured(x)
ResumedAfterCaptured(j, x) ==
    \E e \in 1..Len(job[j].events) :
        /\ job[j].events[e] = EvCaptured(x, job[j].n)
        /\ e < Len(job[j].events) \/ ~job[j].disc

\* C24: the inter-shot delay step is taken after each successful shot i
\* with i < N, once the job has gone past reporting that shot, and at no
\* other point: never after the final shot nor after a failed shot, and
\* always before the capturing event of shot i+1; a job that completes has
\* taken it exactly N-1 times.
C24_DelayBetweenShots ==
    \A j \in Jobs :
        /\ job[j].delays = [x \in 1..Len(job[j].delays) |-> x]
        /\ \A x \in 1..Len(job[j].delays) : x < job[j].n /\ x <= Len(job[j].photos)
        /\ \A x \in 1..Len(job[j].photos) :
              (/\ x < job[j].n
               /\ job[j].entry = "sse" => ResumedAfterCaptured(j, x))
                  => x <= Len(job[j].delays)
        /\ \A e \in 1..Len(job[j].events) :
              (job[j].events[e].status = "capturing" /\ job[j].events[e].photo > 1)
                  => job[j].events[e].photo - 1 <= Len(job[j].delays)
        /\ (job[j].exit = "complete" /\ job[j].n >= 1) =>
              Len(job[j].delays) = job[j].n - 1

C24_Witness ==
    /\ job["j1"].entry = "sse"
    /\ job["j1"].exit = "complete"
    /\ job["j1"].n = 2
    /\ job["j1"].delays = <<1>>
    /\ job["j1"].delay = "zero"

\* C25: a capture_delay of 0 or null is no delay: no job ends with an error
\* event because of the value of the delay.
C25_NoDelayNoError ==
    \A j \in Jobs :
        job[j].delay \in {"zero", "null"} => job[j].exit # "bad_delay"

\* the number written by three decimal digits
Decimal3(d) == 100 * d[1] + 10 * d[2] + d[3]

ShotGood == shot_outcome.launch = "ran" /\ shot_outcome.code = 0 /\ shot_outcome.file

\* the analysis_capture call of the first shot has returned and no later
\* shot has been launched
FirstShotReturned(j) == job[j].shots = 1 /\ job[j].pc # "shot"

\* C27: analysis_capture returns True only when the rpicam-still process
\* exited with code 0 and the output file exists; a non-zero exit, a missing
\* file, a launch timeout or an exception launching the process gives False
\* and no exception to the caller, and the job treats False as the failure
\* of the step.
C27_TrueOnlyOnExitZeroAndFile ==
    /\ \A o \in ShotOutcomes :
          /\ AnalysisCapture(o) \in {"True", "False"}
          /\ AnalysisCapture(o) = "True" <=> (o.launch = "ran" /\ o.code = 0 /\ o.file)
    /\ FirstShotReturned("j1") =>
          IF ShotGood
            THEN /\ Len(job["j1"].photos) >= 1
                 /\ job["j1"].photos[1] = 1
                 /\ job["j1"].exit \notin {"shotfail", "exception"}
            ELSE /\ job["j1"].photos = <<>>
                 /\ job["j1"].exit = "shotfail"

C27_Witness ==
    /\ FirstShotReturned("j1")
    /\ shot_outcome = [launch |-> "ran", code |-> 0, file |-> FALSE]
    /\ job["j1"].exit = "shotfail"
    /\ job["j1"].pc = "done"

\* C28: scale_rois_to_capture_resolution returns a list of the same length
\* and order in which every ROI is {x*sx, y*sy, width*sx, height*sy}
\* truncated toward zero, sx and sy being capture/preview width and height,
\* with no clamping: a negative value stays negative or zero, and an ROI
\* reaching beyond the preview image reaches beyond the capture image.
C28_TruncatedNotClamped ==
    Scaled =>
        /\ DOMAIN scaled_rois.rois = DOMAIN streaming_rois
        /\ \A k \in DOMAIN streaming_rois :
              LET in  == streaming_rois[k]
                  out == scaled_rois.rois[k]
              IN  /\ DOMAIN out = {"x", "y", "width", "height"}
                  /\ IsTruncation(out.x, in.x, resolution.cw, resolution.sw)
                  /\ IsTruncation(out.y, in.y, resolution.ch, resolution.sh)
                  /\ IsTruncation(out.width, in.width, resolution.cw, resolution.sw)
                  /\ IsTruncation(out.height, in.height, resolution.ch, resolution.sh)
                  /\ \A f \in {"x", "y", "width", "height"} : in[f] < 0 => out[f] < 0
                  /\ (in.x >= 0 /\ in.width >= 0 /\ in.x + in.width > resolution.sw)
                         => out.x + out.width > resolution.cw
                  /\ (in.y >= 0 /\ in.height >= 0 /\ in.y + in.height > resolution.sh)
                         => out.y + out.height > resolution.ch

C28_Witness ==
    /\ Scaled
    /\ resolution = ServerResolution
    /\ streaming_rois = <<OutsideRoi, [x |-> -2, y |-> 1, width |-> 2, height |-> -1]>>
    /\ scaled_rois.rois = <<[x |-> 3996, y |-> 3000, width |-> 999, height |-> 500],
                            [x |-> -19, y |-> 10, width |-> 19, height |-> -10]>>

\* the ROI satisfies its invariant on the image: positive size, inside
RoiValid(roi) ==
    /\ roi.width > 0
    /\ roi.height > 0
    /\ roi.x >= 0
    /\ roi.y >= 0
    /\ roi.x + roi.width <= MaskSize
    /\ roi.y + roi.height <= MaskSize

\* the pixels <<row, column>> of the rectangle the ROI asks for
Requested(roi) ==
    (roi.y..(roi.y + roi.height - 1)) \X (roi.x..(roi.x + roi.width - 1))

\* C29: an ROI that violates its invariant (width <= 0, height <= 0,
\* negative x or y, or reaching beyond the image) is reported as an error:
\* _count_pixels_in_roi returns a count only for a valid ROI, and the count
\* is that of the requested rectangle.
C29_InvalidRoiReported ==
    count_result.returned =>
        IF RoiValid(count_roi)
          THEN /\ ~count_result.raised
               /\ count_result.count = Cardinality(count_mask \cap Requested(count_roi))
          ELSE count_result.raised

\* session s is inside the read of the stream pipe, which has no timeout,
\* on a live process that writes nothing
BlockedInRead(s) ==
    /\ stream[s].pc = "read"
    /\ mjpeg_process # None
    /\ mjpeg_process \in vid_alive
    /\ mjpeg_process \in vid_silent

\* C30: no operation blocks without bound on an external process: no
\* stream generator is ever held in a read of the stream process that only
\* that process, by writing or exiting, can end.
C30_NoUnboundedBlocking ==
    \A s \in Streams : ~BlockedInRead(s)

\* C31: a rejected capture request changes nothing: the step that finds
\* capture_in_progress True leaves the three globals and every process as
\* they were and ends the request there, and the rejected request takes no
\* later step (no cleanup), so it never clears the flag of the running job.
C31_RejectionChangesNothing ==
    [][\A j \in Jobs :
          /\ (job[j].pc = "idle" /\ job'[j].exit = "rejected") =>
                /\ capture_in_progress
                /\ gvars' = gvars
                /\ pvars' = pvars
                /\ job'[j].pc = "done"
                /\ job'[j].shots = 0
                /\ \A k \in Jobs \ {j} : job'[k] = job[k]
          /\ job[j].exit = "rejected" => job'[j] = job[j]]_vars

C31_Witness ==
    /\ job["j2"].exit = "rejected"
    /\ job["j2"].pc = "done"
    /\ job["j1"].pc = "shot"
    /\ capture_in_progress
    /\ shot_alive = {"j1"}

\* C32: the shared mjpeg_process handle is never dereferenced after it
\* became None: a /stream session that has tested the handle and is about
\* to call stdout.read, terminate or wait on it never finds it None, and
\* the cleanup of generate_mjpeg_stream never raises.
C32_HandleNotNoneAtCall ==
    \A s \in Streams :
        /\ stream[s].pc # "crashed"
        /\ stream[s].pc \in {"read", "fin_term"} => mjpeg_process # None

====
